---- MODULE Spec2Model ----
(***************************************************************************)
(* winpatch: model of src/src/winpatch.c.                                  *)
(*                                                                         *)
(* One run of main_utf8 is a walk through the stages of the function:      *)
(*   guard -> own -> backup -> open -> scan* -> close -> strip ->          *)
(*   checksum -> update -> sign -> done                                    *)
(* and a following run (a new process on the same target) starts from the  *)
(* files the previous one left behind.                                     *)
(*                                                                         *)
(* The target file is kept as its 8-byte words (the unit of the scan),     *)
(* a trailing remainder shorter than a word, the CheckSum field of the     *)
(* optional header and the number of entries of the certificate table.     *)
(* Operating-system and imagehlp calls are the environment: each may fail, *)
(* and the action that makes the call draws its outcome.                   *)
(***************************************************************************)
EXTENDS Integers, Sequences, FiniteSets

\* ------------------------------------------------------------- bounds
MaxVal   == 1      \* 64-bit words are drawn from 0..MaxVal
MaxWords == 2      \* the file holds at most this many whole words
MaxArgc  == 6      \* argv[0], the path and up to MaxArgc - 2 values
MaxRuns  == 2      \* runs on the same target
MaxFail  == 1      \* fwrite failures the environment may inject per run

\* DWORD dwNumCerts = -1, the value RemoveDigitalSignature returns on error
\* (0xFFFFFFFF as a DWORD; only its being neither 0 nor 1 is ever used).
DWORD_MINUS_1 == 0 - 1

Vals == 0..MaxVal

\* Values of the 32-bit CheckSum field, and the certificate counts the code
\* tells apart (none, one, more than one: the switch of lines 379-392).
CheckSums  == {0, 1}
CertCounts == {0, 1, 2}

RECURSIVE SeqsUpTo(_, _)
SeqsUpTo(S, n) ==
    IF n = 0 THEN {<<>>}
    ELSE LET shorter == SeqsUpTo(S, n - 1)
         IN  shorter \cup {Append(s, x) : s \in {t \in shorter : Len(t) = n - 1}, x \in S}

\* The target's content: every byte the file holds.
Files ==
    [words : SeqsUpTo(Vals, MaxWords), tail : {0, 1}, hdr : CheckSums, certs : CertCounts]

VARIABLES
    target,      \* content of the file at argv[1]
    sec,         \* its security descriptor: [dacl, owner]
    priv,        \* SeTakeOwnershipPrivilege is enabled in the process token
    bak,         \* <<>> when <path>.bak does not exist, else <<its content>>
    argc,        \* number of command-line arguments of the run
    pc,          \* the stage main_utf8 is about to execute
    ret,         \* value returned by main_utf8 (meaningful when pc = "done")
    fileOpen,    \* the stream of line 517 is open
    fpos,        \* file position of that stream, in words
    patch,       \* patch[]: the parsed values
    pos,         \* loop variable pos of the scan, in words
    patched,     \* counter patched
    dwCheckSum,  \* dwCheckSum[0], dwCheckSum[1] (1-based here)
    run,         \* index of the current run
    \* history, recorded for the properties only
    trace,       \* stages executed so far in this run, in order
    failed,      \* the stage whose call reported failure, or "none"
    input0,      \* content of the target when the run started
    bakSrc,      \* content of the target when <path>.bak was created
    nwrites,     \* per word index: successful fwrites in this run
    fails,       \* fwrite failures injected in this run
    sawMatch,    \* some word fread returned equalled some original
    prevExit     \* what ended the previous run and its exit code, if any

vars == <<target, sec, priv, bak, argc, pc, ret, fileOpen, fpos, patch, pos,
          patched, dwCheckSum, run, trace, failed, input0, bakSrc, nwrites, fails,
          sawMatch, prevExit>>

fsVars   == <<target, sec, bak, bakSrc>>
scanVars == <<fileOpen, fpos, patch, pos, patched, nwrites, fails, sawMatch>>

\* ------------------------------------------------------- pure helpers
RECURSIVE SumSeq(_)
SumSeq(s) == IF s = <<>> THEN 0 ELSE Head(s) + SumSeq(Tail(s))

\* MapFileAndCheckSumU's CheckSum output (line 568): the PE checksum, a sum over
\* every byte of the file with the header's CheckSum field taken as zero, so it
\* depends on the words, the remainder and the certificate table but not on hdr.
PECheckSum(f) == (SumSeq(f.words) + f.tail + f.certs) % Cardinality(CheckSums)

\* ------------------------------------------------------ TakeOwnership
\* The environment decides how far the function gets: each value names the
\* call that fails, or the call whose success ends the function.
TakeOwnershipEnv ==
    {"convFail", "sidFail", "aclFail", "dacl1Ok", "dacl1Err", "tokenFail",
     "enableFail", "ownerFail", "disableFail", "dacl2Fail", "dacl2Ok"}

TakeOwnership(s, p, e) ==
    CASE e \in {"convFail", "sidFail", "aclFail"} ->      \* lines 206-253
            [ok |-> FALSE, sec |-> s, priv |-> p]
      [] e = "dacl1Ok" ->                                  \* lines 256-268
            [ok |-> TRUE, sec |-> [s EXCEPT !.dacl = "set"], priv |-> p]
      [] e = "dacl1Err" ->                                 \* lines 269-272
            [ok |-> FALSE, sec |-> s, priv |-> p]
      [] e = "tokenFail" ->                                \* lines 280-283
            [ok |-> FALSE, sec |-> s, priv |-> p]
      [] e = "enableFail" ->                               \* lines 286-289
            [ok |-> FALSE, sec |-> s, priv |-> p]
      [] e = "ownerFail" ->                                \* lines 292-304
            [ok |-> FALSE, sec |-> s, priv |-> TRUE]
      [] e = "disableFail" ->                              \* lines 307-310
            [ok |-> FALSE, sec |-> [s EXCEPT !.owner = "admins"], priv |-> TRUE]
      [] e = "dacl2Fail" ->                                \* lines 313-324
            [ok |-> FALSE, sec |-> [s EXCEPT !.owner = "admins"], priv |-> FALSE]
      [] OTHER ->                                          \* "dacl2Ok", lines 313-322
            [ok |-> TRUE, sec |-> [owner |-> "admins", dacl |-> "set"], priv |-> FALSE]

\* ------------------------------------------------------- CreateBackup
CreateBackupEnv == {"statFail", "allocFail", "copyFail", "ok"}

\* CreateBackup without the "already exists - keeping it" test, copying with
\* bFailIfExists = FALSE.
CreateBackup_Overwrite(t, b, e) ==
    IF e \in {"statFail", "allocFail", "copyFail"}
    THEN [ok |-> FALSE, bak |-> b]
    ELSE [ok |-> TRUE, bak |-> <<t>>]

CreateBackup(t, b, e) ==
    IF e = "statFail" THEN [ok |-> FALSE, bak |-> b]           \* lines 346-347
    ELSE IF e = "allocFail" THEN [ok |-> FALSE, bak |-> b]     \* lines 349-351
    ELSE IF b # <<>> THEN [ok |-> TRUE, bak |-> b]             \* lines 354-358
    ELSE IF e = "copyFail" THEN [ok |-> FALSE, bak |-> b]      \* line 359, CopyFile fails
    ELSE [ok |-> TRUE, bak |-> <<t>>]                          \* lines 359-363

\* --------------------------------------------- RemoveDigitalSignature
RemoveEnv == {"openFail", "enumFail", "removeFail", "ok"}

\* ImageRemoveCertificate drops entry 0; whether imagehlp also rewrites the
\* header checksum while doing so is the library's business: recalc draws it.
ImageRemoveCertificate(t, recalc) ==
    LET u == [t EXCEPT !.certs = t.certs - 1]
    IN  IF recalc THEN [u EXCEPT !.hdr = PECheckSum(u)] ELSE u

\* RemoveDigitalSignature with the default arm falling into case 1: entry 0
\* is removed whenever there is at least one certificate.
RemoveDigitalSignature_RemovesFirst(t, e, recalc) ==
    IF e \in {"openFail", "enumFail"}
    THEN [r |-> DWORD_MINUS_1, target |-> t]
    ELSE IF t.certs = 0 THEN [r |-> 0, target |-> t]
    ELSE IF e = "removeFail" THEN [r |-> DWORD_MINUS_1, target |-> t]
    ELSE [r |-> 1, target |-> ImageRemoveCertificate(t, recalc)]

RemoveDigitalSignature(t, e, recalc) ==
    IF e \in {"openFail", "enumFail"}                          \* lines 368-378
    THEN [r |-> DWORD_MINUS_1, target |-> t]
    ELSE CASE t.certs = 0 -> [r |-> 0, target |-> t]           \* lines 380-381
           [] t.certs = 1 ->                                   \* lines 382-387
                IF e = "removeFail"
                THEN [r |-> DWORD_MINUS_1, target |-> t]
                ELSE [r |-> 1, target |-> ImageRemoveCertificate(t, recalc)]
           [] OTHER -> [r |-> DWORD_MINUS_1, target |-> t]     \* lines 388-391

\* ----------------------------------------------------- UpdateChecksum
UpdateEnv == {"openFail", "mapFail", "viewFail", "noDos", "noNt", "ok"}

\* UpdateChecksum writing the new sum without comparing the field with the
\* old one.
UpdateChecksum_NoCompare(t, cs, e, machine64) ==
    IF e # "ok" THEN [ok |-> FALSE, target |-> t]
    ELSE [ok |-> TRUE, target |-> [t EXCEPT !.hdr = cs[2]]]

\* UpdateChecksum storing dwCheckSum[0] where dwCheckSum[1] is meant.
UpdateChecksum_WritesOld(t, cs, e, machine64) ==
    IF e # "ok" THEN [ok |-> FALSE, target |-> t]
    ELSE IF t.hdr # cs[1] THEN [ok |-> FALSE, target |-> t]
    ELSE [ok |-> TRUE, target |-> [t EXCEPT !.hdr = cs[1]]]

\* The CheckSum field sits at the same offset in the 32-bit and the 64-bit
\* optional header, so both arms of the switch read and write t.hdr.
UpdateChecksum(t, cs, e, machine64) ==
    IF e # "ok" THEN [ok |-> FALSE, target |-> t]              \* lines 407-433
    ELSE IF t.hdr # cs[1] THEN [ok |-> FALSE, target |-> t]    \* lines 441-444, 449-452
    ELSE [ok |-> TRUE, target |-> [t EXCEPT !.hdr = cs[2]]]    \* lines 445, 453, 457

\* ------------------------------------------------------- SelfSignFile
\* Declared at line 60 and defined elsewhere.  It embeds one signature; the
\* stored checksum keeps its relation to the file's bytes (signing a
\* checksum-correct file gives a checksum-correct file, signing a stale one a
\* stale one).
SelfSignFile(t) ==
    LET u == [t EXCEPT !.certs = 1]
    IN  [u EXCEPT !.hdr = (t.hdr + PECheckSum(u) + Cardinality(CheckSums) - PECheckSum(t))
                            % Cardinality(CheckSums)]

\* ------------------------------------------------------ the patch scan
WriteOutcomes == {"ok", "failStay", "failAdv"}

\* fseek(file, -8, SEEK_CUR), line 536: a seek before the start fails and
\* leaves the position where it was; the result is not looked at.
SeekBack(p) == IF p >= 1 THEN p - 1 ELSE p

\* WriteWord with patched++ outside the test of fwrite's result.
WriteWord_CountsFailures(st, v, o) ==
    LET at == SeekBack(st.fpos)
    IN  CASE o = "ok" ->
               [st EXCEPT !.words[at + 1] = v, !.fpos = at + 1,
                          !.patched = @ + 1, !.nw[at + 1] = @ + 1]
          [] o = "failStay" ->
               [st EXCEPT !.fpos = at, !.fails = @ + 1, !.patched = @ + 1]
          [] OTHER ->
               [st EXCEPT !.fpos = at + 1, !.fails = @ + 1, !.patched = @ + 1]

\* Lines 537-542: fwrite of one word at the stream position, then patched++
\* on success.  A failed fwrite writes nothing and leaves the position
\* indeterminate: where it was, or past the word.
WriteWord(st, v, o) ==
    LET at == SeekBack(st.fpos)
    IN  CASE o = "ok" ->
               [st EXCEPT !.words[at + 1] = v, !.fpos = at + 1,
                          !.patched = @ + 1, !.nw[at + 1] = @ + 1]
          [] o = "failStay" -> [st EXCEPT !.fpos = at, !.fails = @ + 1]
          [] OTHER          -> [st EXCEPT !.fpos = at + 1, !.fails = @ + 1]

\* The inner loop comparing the later pairs with the word just written
\* instead of the word fread returned.
RECURSIVE PatchLoop_Rereads(_, _, _, _, _)
PatchLoop_Rereads(k, val, p, outs, st) ==
    IF k > Len(p) THEN st
    ELSE IF val # p[k] THEN PatchLoop_Rereads(k + 2, val, p, outs, st)
    ELSE PatchLoop_Rereads(k + 2, p[k + 1], p, [j \in 1..Len(p) |-> "ok"],
                           WriteWord(st, p[k + 1], outs[k]))

\* The inner loop writing back the original of the matching pair.
RECURSIVE PatchLoop_WritesOriginal(_, _, _, _, _)
PatchLoop_WritesOriginal(k, val, p, outs, st) ==
    IF k > Len(p) THEN st
    ELSE IF val # p[k] THEN PatchLoop_WritesOriginal(k + 2, val, p, outs, st)
    ELSE PatchLoop_WritesOriginal(k + 2, val, p, outs, WriteWord(st, p[k], outs[k]))

\* The inner loop, lines 533-545, from the pair whose original is p[k]: val is
\* the word fread returned and is not read again inside the loop.  outs gives
\* the outcome of the fwrite of each pair that matches.
RECURSIVE PatchLoop(_, _, _, _, _)
PatchLoop(k, val, p, outs, st) ==
    IF k > Len(p) THEN st
    ELSE IF val # p[k] THEN PatchLoop(k + 2, val, p, outs, st)
    ELSE PatchLoop(k + 2, val, p, outs, WriteWord(st, p[k + 1], outs[k]))

\* The pairs of p (by the index of their original) that equal val.
Matching(val, p) == {k \in 1..Len(p) : k % 2 = 1 /\ p[k] = val}

\* The fwrite outcomes the environment may choose for one word: at most
\* budget failures.
OutcomesFor(val, p, budget) ==
    {outs \in [Matching(val, p) -> WriteOutcomes] :
        Cardinality({k \in Matching(val, p) : outs[k] # "ok"}) <= budget}

\* The whole scan, lines 532-546, from stream position st.fpos to the end of
\* the file, every fwrite succeeding: the outer loop stops at the first fread
\* that finds fewer than 8 bytes left.
RECURSIVE ScanFile(_, _)
ScanFile(st, p) ==
    IF st.fpos + 1 > Len(st.words) THEN st
    ELSE LET val == st.words[st.fpos + 1]
             outs == [k \in Matching(val, p) |-> "ok"]
         IN  ScanFile(PatchLoop(1, val, p, outs, [st EXCEPT !.fpos = @ + 1]), p)

\* ------------------------------------------------------------ the run
NoWrites(t) == [i \in 1..Len(t.words) |-> 0]

Sec0 == [owner |-> "orig", dacl |-> "orig"]

Init ==
    /\ target \in Files
    /\ sec = Sec0
    /\ priv = FALSE
    /\ bak = <<>>
    /\ argc \in 1..MaxArgc
    /\ pc = "guard"
    /\ ret = 0
    /\ fileOpen = FALSE
    /\ fpos = 0
    /\ patch = <<>>
    /\ pos = 0
    /\ patched = 0
    /\ dwCheckSum = <<0, 0>>
    /\ run = 1
    /\ trace = <<>>
    /\ failed = "none"
    /\ input0 = target
    /\ bakSrc = <<>>
    /\ nwrites = NoWrites(target)
    /\ fails = 0
    /\ sawMatch = FALSE
    /\ prevExit = <<>>

\* return code; (the process then exits with it, lines 598-605)
Return(code) ==
    /\ pc' = "done"
    /\ ret' = code

\* control reaches the next stage
Goto(stage) ==
    /\ pc' = stage
    /\ UNCHANGED ret

\* Guard returning the code of the other rejections for a missing path.
Guard_OneCode ==
    /\ pc = "guard"
    /\ trace' = Append(trace, "guard")
    /\ \E elevatedProc \in BOOLEAN, underSystemDir \in BOOLEAN :
          IF ~elevatedProc THEN Return(-1) /\ failed' = "guard"
          ELSE IF argc < 2 THEN Return(-1) /\ failed' = "usage"
          ELSE IF underSystemDir THEN Return(-1) /\ failed' = "guard"
          ELSE Goto("own") /\ UNCHANGED failed
    /\ UNCHANGED <<fsVars, priv, argc, scanVars, dwCheckSum, run, prevExit, input0>>

\* Guard going on to TakeOwnership although its checks rejected the request.
Guard_FailsOpen ==
    /\ pc = "guard"
    /\ trace' = Append(trace, "guard")
    /\ \E elevatedProc \in BOOLEAN, underSystemDir \in BOOLEAN :
          IF ~elevatedProc THEN Goto("own") /\ failed' = "guard"
          ELSE IF argc < 2 THEN Return(-2) /\ failed' = "usage"
          ELSE IF underSystemDir THEN Goto("own") /\ failed' = "guard"
          ELSE Goto("own") /\ UNCHANGED failed
    /\ UNCHANGED <<fsVars, priv, argc, scanVars, dwCheckSum, run, prevExit, input0>>

\* Lines 475-494: elevation check, argc < 2, protected system directory.
Guard ==
    /\ pc = "guard"
    /\ trace' = Append(trace, "guard")
    /\ \E elevatedProc \in BOOLEAN, underSystemDir \in BOOLEAN :
          IF ~elevatedProc THEN Return(-1) /\ failed' = "guard"
          ELSE IF argc < 2 THEN Return(-2) /\ failed' = "usage"
          ELSE IF underSystemDir THEN Return(-1) /\ failed' = "guard"
          ELSE Goto("own") /\ UNCHANGED failed
    /\ UNCHANGED <<fsVars, priv, argc, scanVars, dwCheckSum, run, prevExit, input0>>

\* Lines 496-499.
Own ==
    /\ pc = "own"
    /\ trace' = Append(trace, "own")
    /\ \E e \in TakeOwnershipEnv :
          LET res == TakeOwnership(sec, priv, e)
          IN  /\ sec' = res.sec
              /\ priv' = res.priv
              /\ failed' = IF res.ok THEN failed ELSE "own"
              /\ IF res.ok THEN Goto("backup") ELSE Return(-1)
    /\ UNCHANGED <<target, bak, bakSrc, argc, scanVars, dwCheckSum, run, prevExit, input0>>

\* Backup with the result of CreateBackup not looked at.
Backup_Ungated ==
    /\ pc = "backup"
    /\ trace' = Append(trace, "backup")
    /\ \E e \in CreateBackupEnv :
          LET res == CreateBackup(target, bak, e)
          IN  /\ bak' = res.bak
              /\ bakSrc' = IF bak = <<>> /\ res.bak # <<>> THEN <<target>> ELSE bakSrc
              /\ failed' = IF res.ok THEN failed ELSE "backup"
              /\ Goto("open")
    /\ UNCHANGED <<target, sec, priv, argc, scanVars, dwCheckSum, run, prevExit, input0>>

\* Lines 501-504.
Backup ==
    /\ pc = "backup"
    /\ trace' = Append(trace, "backup")
    /\ \E e \in CreateBackupEnv :
          LET res == CreateBackup(target, bak, e)
          IN  /\ bak' = res.bak
              /\ bakSrc' = IF bak = <<>> /\ res.bak # <<>> THEN <<target>> ELSE bakSrc
              /\ failed' = IF res.ok THEN failed ELSE "backup"
              /\ IF res.ok THEN Goto("open") ELSE Return(-1)
    /\ UNCHANGED <<target, sec, priv, argc, scanVars, dwCheckSum, run, prevExit, input0>>

\* Lines 506-530: the argument checks, fopen, calloc and the strtoull parse
\* of the values (patch holds what strtoull returned for each of them).
Open ==
    /\ pc = "open"
    /\ trace' = Append(trace, "open")
    /\ \E fopenOk \in BOOLEAN, callocOk \in BOOLEAN, p \in [1..(argc - 2) -> Vals] :
          IF argc <= 2 THEN
              Return(-1) /\ failed' = "usage" /\ UNCHANGED <<fileOpen, patch>>
          ELSE IF argc % 2 # 0 THEN
              Return(-1) /\ failed' = "usage" /\ UNCHANGED <<fileOpen, patch>>
          ELSE IF ~fopenOk THEN
              Return(-1) /\ failed' = "open" /\ UNCHANGED <<fileOpen, patch>>
          ELSE IF ~callocOk THEN
              Return(-1) /\ failed' = "open" /\ fileOpen' = TRUE /\ UNCHANGED patch
          ELSE
              Goto("scan") /\ fileOpen' = TRUE /\ patch' = p /\ UNCHANGED failed
    /\ UNCHANGED <<fsVars, priv, argc, fpos, pos, patched, nwrites, fails, sawMatch,
                   dwCheckSum, run, prevExit, input0>>

\* Lines 532-546: one iteration of the outer loop, or the fread that ends it
\* (fewer than 8 bytes are left at the stream position).
Scan ==
    /\ pc = "scan"
    /\ IF fpos + 1 > Len(target.words)
       THEN /\ Goto("close")
            /\ trace' = Append(trace, "scan")
            /\ UNCHANGED <<target, scanVars>>
       ELSE \E outs \in OutcomesFor(target.words[fpos + 1], patch, MaxFail - fails) :
              LET val == target.words[fpos + 1]
                  st0 == [words |-> target.words, fpos |-> fpos + 1,
                          patched |-> patched, nw |-> nwrites, fails |-> fails]
                  st  == PatchLoop(1, val, patch, outs, st0)
              IN  /\ target' = [target EXCEPT !.words = st.words]
                  /\ fpos' = st.fpos
                  /\ patched' = st.patched
                  /\ nwrites' = st.nw
                  /\ fails' = st.fails
                  /\ pos' = pos + 1
                  /\ sawMatch' = (sawMatch \/ Matching(val, patch) # {})
                  /\ UNCHANGED <<pc, ret, trace, fileOpen, patch>>
    /\ UNCHANGED <<sec, bak, bakSrc, priv, argc, dwCheckSum, run, prevExit, input0, failed>>

\* Close without the "No elements were patched - aborting" return.
Close_NoStop ==
    /\ pc = "close"
    /\ trace' = Append(trace, "close")
    /\ patch' = <<>>
    /\ fileOpen' = FALSE
    /\ fpos' = 0
    /\ Goto("strip")
    /\ UNCHANGED <<fsVars, priv, argc, pos, patched, nwrites, fails, sawMatch,
                   dwCheckSum, run, prevExit, input0, failed>>

\* Close going on to the checksum, the signature left in place.
Close_SkipStrip ==
    /\ pc = "close"
    /\ trace' = Append(trace, "close")
    /\ patch' = <<>>
    /\ fileOpen' = FALSE
    /\ fpos' = 0
    /\ IF patched = 0 THEN Return(0) ELSE Goto("checksum")
    /\ UNCHANGED <<fsVars, priv, argc, pos, patched, nwrites, fails, sawMatch,
                   dwCheckSum, run, prevExit, input0, failed>>

\* Lines 547-552: free(patch) and fclose(file) end the array and the stream.
Close ==
    /\ pc = "close"
    /\ trace' = Append(trace, "close")
    /\ patch' = <<>>
    /\ fileOpen' = FALSE
    /\ fpos' = 0
    /\ IF patched = 0 THEN Return(0) ELSE Goto("strip")
    /\ UNCHANGED <<fsVars, priv, argc, pos, patched, nwrites, fails, sawMatch,
                   dwCheckSum, run, prevExit, input0, failed>>

\* Lines 555-566.
Strip ==
    /\ pc = "strip"
    /\ trace' = Append(trace, "strip")
    /\ \E e \in RemoveEnv, recalc \in BOOLEAN :
          LET res == RemoveDigitalSignature(target, e, recalc)
          IN  /\ target' = res.target
              /\ failed' = IF res.r = DWORD_MINUS_1 THEN "strip" ELSE failed
              /\ IF res.r \in {0, 1} THEN Goto("checksum") ELSE Return(-1)
    /\ UNCHANGED <<sec, bak, bakSrc, priv, argc, scanVars, dwCheckSum, run, prevExit, input0>>

\* Lines 568-572: MapFileAndCheckSumU gives the stored and the computed sum.
Checksum ==
    /\ pc = "checksum"
    /\ trace' = Append(trace, "checksum")
    /\ \E ok \in BOOLEAN :
          IF ok
          THEN /\ dwCheckSum' = <<target.hdr, PECheckSum(target)>>
               /\ Goto("update")
               /\ UNCHANGED failed
          ELSE /\ Return(-1)
               /\ failed' = "checksum"
               /\ UNCHANGED dwCheckSum
    /\ UNCHANGED <<fsVars, priv, argc, scanVars, run, prevExit, input0>>

\* Update with the result of UpdateChecksum not looked at.
Update_Ungated ==
    /\ pc = "update"
    /\ trace' = Append(trace, "update")
    /\ IF dwCheckSum[1] # dwCheckSum[2]
       THEN \E e \in UpdateEnv, machine64 \in BOOLEAN :
              LET res == UpdateChecksum(target, dwCheckSum, e, machine64)
              IN  /\ target' = res.target
                  /\ failed' = IF res.ok THEN failed ELSE "update"
                  /\ Goto("sign")
       ELSE /\ Goto("sign")
            /\ UNCHANGED <<target, failed>>
    /\ UNCHANGED <<sec, bak, bakSrc, priv, argc, scanVars, dwCheckSum, run, prevExit, input0>>

\* Lines 574-578.
Update ==
    /\ pc = "update"
    /\ trace' = Append(trace, "update")
    /\ IF dwCheckSum[1] # dwCheckSum[2]
       THEN \E e \in UpdateEnv, machine64 \in BOOLEAN :
              LET res == UpdateChecksum(target, dwCheckSum, e, machine64)
              IN  /\ target' = res.target
                  /\ failed' = IF res.ok THEN failed ELSE "update"
                  /\ IF res.ok THEN Goto("sign") ELSE Return(-1)
       ELSE /\ Goto("sign")
            /\ UNCHANGED <<target, failed>>
    /\ UNCHANGED <<sec, bak, bakSrc, priv, argc, scanVars, dwCheckSum, run, prevExit, input0>>

\* Sign putting the backup back over the target when SelfSignFile fails.
Sign_RollsBack ==
    /\ pc = "sign"
    /\ trace' = Append(trace, "sign")
    /\ \E ok \in BOOLEAN :
          IF ok
          THEN /\ target' = SelfSignFile(target)
               /\ Return(patched)
               /\ UNCHANGED failed
          ELSE /\ Return(-1)
               /\ failed' = "sign"
               /\ target' = bak[1]
    /\ UNCHANGED <<sec, bak, bakSrc, priv, argc, scanVars, dwCheckSum, run, prevExit, input0>>

\* Lines 580-587.
Sign ==
    /\ pc = "sign"
    /\ trace' = Append(trace, "sign")
    /\ \E ok \in BOOLEAN :
          IF ok
          THEN /\ target' = SelfSignFile(target)
               /\ Return(patched)
               /\ UNCHANGED failed
          ELSE /\ Return(-1)
               /\ failed' = "sign"
               /\ UNCHANGED target
    /\ UNCHANGED <<sec, bak, bakSrc, priv, argc, scanVars, dwCheckSum, run, prevExit, input0>>

\* What ended a finished run: the elevation or system-directory check
\* (lines 475-478, 489-494), the missing path (480-484), the odd number of
\* values (511-514), another failure, or nothing (the run completed).
Cause ==
    CASE failed = "guard" -> "guard"
      [] failed = "usage" /\ argc < 2 -> "nopath"
      [] failed = "usage" /\ argc > 2 -> "odd"
      [] failed = "none" -> "completed"
      [] OTHER -> "other"

\* wmain, lines 590-606, returns what main_utf8 returned and the process
\* exits; the tool is then started again on the same target.
NewRun ==
    /\ pc = "done"
    /\ run < MaxRuns
    /\ run' = run + 1
    /\ argc' \in 1..MaxArgc
    /\ pc' = "guard"
    /\ ret' = 0
    /\ priv' = FALSE
    /\ fileOpen' = FALSE
    /\ fpos' = 0
    /\ patch' = <<>>
    /\ pos' = 0
    /\ patched' = 0
    /\ dwCheckSum' = <<0, 0>>
    /\ trace' = <<>>
    /\ failed' = "none"
    /\ input0' = target
    /\ nwrites' = NoWrites(target)
    /\ fails' = 0
    /\ sawMatch' = FALSE
    /\ prevExit' = <<[cause |-> Cause, code |-> ret]>>
    /\ UNCHANGED fsVars

\* One run of the tool.
Next ==
    \/ Guard
    \/ Own
    \/ Backup
    \/ Open
    \/ Scan
    \/ Close
    \/ Strip
    \/ Checksum
    \/ Update
    \/ Sign

Spec == Init /\ [][Next]_vars

\* Up to MaxRuns runs, one after the other, on the same target.
NextRuns ==
    \/ Next
    \/ NewRun

SpecRuns == Init /\ [][NextRuns]_vars

\* The tail of a run from the call of UpdateChecksum on, for every pair of
\* sums MapFileAndCheckSumU (line 568) can have returned and every value the
\* header field can hold when the view is mapped: UpdateChecksum opens the
\* file shared for reading and writing (line 407), so the field need not be
\* the old sum any more.
InitUpdate ==
    /\ target \in {f \in Files : Len(f.words) > 0 /\ f.certs = 0}
    /\ sec = [owner |-> "orig", dacl |-> "set"]
    /\ priv = FALSE
    /\ bak = <<target>>
    /\ argc = 4
    /\ pc = "update"
    /\ ret = 0
    /\ fileOpen = FALSE
    /\ fpos = 0
    /\ patch = <<>>
    /\ pos = Len(target.words)
    /\ patched = Len(target.words)
    /\ dwCheckSum \in {cs \in [1..2 -> CheckSums] : cs[2] = PECheckSum(target)}
    /\ run = 1
    /\ trace = <<"guard", "own", "backup", "open", "scan", "close", "strip", "checksum">>
    /\ failed = "none"
    /\ input0 = target
    /\ bakSrc = <<target>>
    /\ nwrites = [i \in 1..Len(target.words) |-> 1]
    /\ fails = 0
    /\ sawMatch = TRUE
    /\ prevExit = <<>>

NextUpdate ==
    \/ Update
    \/ Sign

SpecUpdate == InitUpdate /\ [][NextUpdate]_vars

\* ============================================================ properties
InTrace(stage) == \E i \in 1..Len(trace) : trace[i] = stage

IsPrefix(s, t) == Len(s) <= Len(t) /\ \A i \in 1..Len(s) : s[i] = t[i]

StageOrder ==
    <<"guard", "own", "backup", "open", "scan", "close", "strip", "checksum",
      "update", "sign">>

Reconcile == {"strip", "checksum", "update", "sign"}

MinOf(S) == CHOOSE x \in S : \A y \in S : x <= y

\* The replacement of the first pair of p, in list order, whose original is val.
FirstReplacement(val, p) == p[MinOf(Matching(val, p)) + 1]

\* Word indices overwritten in this run.
Overwritten == {i \in DOMAIN nwrites : nwrites[i] > 0}

\* Number of pairs of the request.
NPairs == (argc - 2) \div 2

\* C1: while the scan runs and every write has succeeded, each word already
\* scanned was overwritten at most once, a word equal to some original was
\* overwritten exactly once and holds the replacement of the first pair with
\* that original, and patched counts one per such word.
C1_FirstMatchOnce ==
    (pc = "scan" /\ fails = 0) =>
        /\ \A i \in 1..fpos :
              /\ nwrites[i] <= 1
              /\ Matching(input0.words[i], patch) # {} =>
                    /\ nwrites[i] = 1
                    /\ target.words[i] = FirstReplacement(input0.words[i], patch)
        /\ patched = Cardinality({i \in 1..fpos : Matching(input0.words[i], patch) # {}})

\* C2: a run that completed the scan and reported no failure returns a count
\* that is at most K * ceil(N / 2), for K words and N pairs, and that equals
\* the number of words overwritten.
C2_CountBound ==
    (pc = "done" /\ failed = "none" /\ InTrace("close")) =>
        /\ ret <= Len(target.words) * ((NPairs + 1) \div 2)
        /\ ret = Cardinality(Overwritten)

\* C3: a run whose scan read no word equal to any original returns 0, runs
\* none of strip, checksum, update and sign, and leaves the target as it was.
C3_NoMatchNoChange ==
    (pc = "done" /\ InTrace("close") /\ ~sawMatch) =>
        /\ ret = 0
        /\ failed = "none"
        /\ \A i \in 1..Len(trace) : trace[i] \notin Reconcile
        /\ target = input0

C3_Witness ==
    /\ pc = "done" /\ InTrace("close") /\ ~sawMatch
    /\ Len(target.words) = MaxWords
    /\ argc >= 6

\* C4: a run that ends at the usage error for an odd number of values returns
\* a negative code with the target never opened, its security descriptor as
\* it was, no backup made and its bytes as they were.
C4_OddNothingTouched ==
    (pc = "done" /\ failed = "usage" /\ argc > 2 /\ argc % 2 = 1) =>
        /\ ret < 0
        /\ ~fileOpen /\ ~InTrace("scan")
        /\ sec = Sec0
        /\ bak = <<>>
        /\ target = input0

\* C5: whenever <path>.bak exists its content is the content the target had
\* when the backup was created, over all the runs.
C5_BackupKept == bak # <<>> => bak = bakSrc

C5_Witness ==
    /\ run = 2 /\ pc = "done" /\ ret > 0
    /\ InTrace("backup")
    /\ bak # <<>> /\ bak # <<input0>> /\ bak # <<target>>

\* C6: the target differs from what the run found only if the backup exists,
\* and after a failed CreateBackup the run is over with a non-zero code and
\* nothing past the backup stage has run.
C6_NoWriteWithoutBackup ==
    /\ bak = <<>> => target = input0
    /\ failed = "backup" =>
          /\ pc = "done" /\ ret # 0
          /\ trace = <<"guard", "own", "backup">>

C6_Witness ==
    /\ pc = "done" /\ failed = "backup" /\ bak = <<>>
    /\ argc = 6 /\ Len(target.words) > 0

\* C7: once one of the gate stages reports failure the run is over with a
\* non-zero code and the failed stage is the last one that executed.
GateStages == {"guard", "own", "backup", "strip", "checksum", "update", "sign"}

C7_HardGate ==
    failed \in GateStages =>
        /\ pc = "done"
        /\ ret # 0
        /\ trace # <<>> /\ trace[Len(trace)] = failed

C7_Witness ==
    /\ pc = "done" /\ failed = "update" /\ patched > 0
    /\ target.hdr # PECheckSum(target)

\* C8: the stages executed are an initial part of guard, own, backup, open,
\* scan, close, strip, checksum, update, sign; the checksum is computed only
\* after a strip that did not fail, and control reaches the re-sign only with
\* the header checksum equal to the computed one.
C8_StageOrder ==
    /\ IsPrefix(trace, StageOrder)
    /\ InTrace("strip") => fpos = 0 /\ ~fileOpen /\ patched > 0
    /\ InTrace("checksum") => failed # "strip" /\ target.certs <= 1
    /\ pc = "sign" => target.hdr = PECheckSum(target) /\ target.certs = 0

C8_Witness == pc = "done" /\ trace = StageOrder /\ ret > 0

C10_ManyCertsRejected ==
    (InTrace("strip") /\ input0.certs > 1) =>
        /\ pc = "done" /\ ret # 0
        /\ target.certs = input0.certs
        /\ target.hdr = input0.hdr
        /\ ~InTrace("checksum") /\ ~InTrace("update") /\ ~InTrace("sign")

C10_Witness ==
    /\ pc = "done" /\ InTrace("strip") /\ input0.certs > 1
    /\ patched > 0 /\ ret = 0 - 1

\* The originals and the replacements of the request p.
Originals(p) == {p[k] : k \in {j \in 1..Len(p) : j % 2 = 1}}

Replacements(p) == {p[k] : k \in {j \in 1..Len(p) : j % 2 = 0}}

\* A second scan of the file as it is now, from its start, with the pairs of
\* this run.
Rescan ==
    ScanFile([words |-> target.words, fpos |-> 0, patched |-> 0,
              nw |-> NoWrites(target), fails |-> 0], patch)

\* C11: when a scan in which every write succeeded has reached the end of the
\* file and no replacement of the request is also an original, scanning the
\* file again with the same pairs matches nothing: it writes no word, counts
\* zero and leaves the words as they are.
C11_SecondScanIdle ==
    (pc = "close" /\ fails = 0 /\ Originals(patch) \cap Replacements(patch) = {})
        => /\ Rescan.patched = 0
           /\ Rescan.words = target.words
           /\ \A i \in 1..Len(target.words) : Rescan.nw[i] = 0

C11_Witness ==
    /\ pc = "close"
    /\ fails = 0
    /\ Len(patch) = 4
    /\ Originals(patch) \cap Replacements(patch) = {}
    /\ patched = Len(target.words)
    /\ patched > 1
    /\ target.words # input0.words

\* C12: once TakeOwnership has returned, the take-ownership privilege it
\* enabled is disabled again, whatever path it returned by.
C12_PrivilegeRestored == InTrace("own") => priv = FALSE

\* C13: a run the access guard rejected (not elevated, or the path is under
\* the system directory) is over with a negative code and has executed no
\* other stage: security descriptor, privilege, backup and target are as the
\* run found them and no stream was opened.  The guard itself, accepted or
\* not, changes none of them.
C13_GuardFailsClosed ==
    /\ failed = "guard"
          => /\ pc = "done"
             /\ ret < 0
             /\ trace = <<"guard">>
    /\ trace = <<"guard">>
          => /\ sec = Sec0
             /\ priv = FALSE
             /\ bak = <<>>
             /\ target = input0
             /\ ~fileOpen
             /\ \A i \in 1..Len(nwrites) : nwrites[i] = 0

C13_Witness ==
    /\ failed = "guard"
    /\ pc = "done"
    /\ argc >= 4
    /\ argc % 2 = 0
    /\ Len(target.words) > 0

\* The causes whose exit codes the usage text sets apart.
UsageCauses == {"nopath", "odd", "guard"}

\* A completed run returns the number of successful writes, 0 when no word
\* matched.
CompletedCode ==
    (pc = "done" /\ Cause = "completed")
        => /\ ret >= 0
           /\ ret = patched
           /\ ret = SumSeq(nwrites)
           /\ ~sawMatch => ret = 0

\* C14 as stated: two runs ended by different causes among missing path, odd
\* number of values and guard rejection ended with different negative codes,
\* and a completed run returns its count.
C14_CodesSeparateCauses ==
    /\ (pc = "done" /\ Cause \in UsageCauses) => ret < 0
    /\ (pc = "done" /\ prevExit # <<>> /\ Cause \in UsageCauses
           /\ prevExit[1].cause \in UsageCauses /\ prevExit[1].cause # Cause)
          => ret # prevExit[1].code
    /\ CompletedCode

\* C14, amended: a missing path (on an elevated process) ends the run with
\* -2; an odd number of values and a guard rejection both end it with -1, the
\* code of every other failure too; so the missing path is told apart from
\* the other two causes, which share one code; a completed run returns the
\* number of successful writes, 0 when no word matched.
C14_ExitCodes ==
    /\ (pc = "done" /\ Cause = "nopath") => ret = -2
    /\ (pc = "done" /\ Cause \in {"odd", "guard", "other"}) => ret = -1
    /\ (pc = "done" /\ prevExit # <<>> /\ Cause \in UsageCauses
           /\ prevExit[1].cause \in UsageCauses /\ prevExit[1].cause # Cause)
          => (ret # prevExit[1].code <=> "nopath" \in {Cause, prevExit[1].cause})
    /\ CompletedCode

C14_Witness ==
    /\ pc = "done"
    /\ prevExit # <<>>
    /\ prevExit[1].cause = "guard"
    /\ Cause = "odd"
    /\ ret = prevExit[1].code

\* C15: the step that calls UpdateChecksum changes the target only when the
\* computed sum differs from the stored one and the header field holds the
\* old stored sum, and then only the field, to the computed sum; when the
\* sums differ and the field does not hold the old one, the step leaves the
\* target as it is and ends the run with a non-zero code, so the signing
\* stage is never reached.
C15_WriteOnlyOverOld ==
    [][pc = "update" =>
          /\ target' # target =>
                /\ dwCheckSum[1] # dwCheckSum[2]
                /\ target.hdr = dwCheckSum[1]
                /\ target' = [target EXCEPT !.hdr = dwCheckSum[2]]
          /\ (dwCheckSum[1] # dwCheckSum[2] /\ target.hdr # dwCheckSum[1]) =>
                /\ target' = target
                /\ pc' = "done"
                /\ ret' # 0
                /\ failed' = "update"
                /\ trace' = Append(trace, "update")]_vars

C15_Witness ==
    /\ pc = "done"
    /\ failed = "update"
    /\ trace[Len(trace)] = "update"
    /\ dwCheckSum[1] # dwCheckSum[2]
    /\ target.hdr # dwCheckSum[1]

\* Words of the file the run found that equal some original and were never
\* written in this run.
Unpatched ==
    {i \in 1..Len(input0.words) :
        Matching(input0.words[i], patch) # {} /\ nwrites[i] = 0}

\* C16: failed writes do not end the scan: it still stops only at the end of
\* the file, each failure leaves at most one matching word unwritten, and
\* patched is the number of writes that succeeded, failures not counted.
C16_FailureDoesNotStop ==
    /\ patched = SumSeq(nwrites)
    /\ pc = "close" =>
          /\ fpos = Len(target.words)
          /\ Cardinality(Unpatched) <= fails

\* A failed write on the first word, the second word patched all the same.
C16_Witness ==
    /\ pc = "close"
    /\ fails > 0
    /\ Len(input0.words) = 2
    /\ Unpatched = {1}
    /\ nwrites[2] = 1
    /\ target.words[2] # input0.words[2]
    /\ target.words[1] = input0.words[1]
    /\ patched = 1

\* C17: the step in which SelfSignFile fails ends the run with a non-zero
\* code and changes neither the target, which keeps the words the scan wrote,
\* no certificate and the header checksum equal to the computed one, nor the
\* backup, nor the security descriptor.
C17_NoRollback ==
    [][(pc = "sign" /\ failed' = "sign") =>
          /\ pc' = "done"
          /\ ret' # 0
          /\ target' = target
          /\ target'.hdr = dwCheckSum[2]
          /\ target'.hdr = PECheckSum(target')
          /\ bak' = bak
          /\ bakSrc' = bakSrc
          /\ sec' = sec]_vars

\* The signing failed on a target whose words and header checksum the run
\* has changed; the backup still holds what the run found.
C17_Witness ==
    /\ pc = "done"
    /\ failed = "sign"
    /\ ret = -1
    /\ target.words # input0.words
    /\ target.hdr # input0.hdr
    /\ target.hdr = dwCheckSum[2]
    /\ bak = <<input0>>

\* The originals of the request p are pairwise distinct.
DistinctOriginals(p) ==
    \A j, k \in 1..Len(p) : (j % 2 = 1 /\ k % 2 = 1 /\ j # k) => p[j] # p[k]

\* C18: when the originals are pairwise distinct and every write succeeded,
\* the file at the end of the scan is the word-wise image of the file the run
\* found: a word equal to an original holds that pair's replacement (even when
\* the replacement is the original of another pair), every other word, the
\* remainder after the last whole word, the length and everything outside the
\* words are as they were, and each matching word was written exactly once.
C18_WordwiseMap ==
    (pc = "close" /\ fails = 0 /\ DistinctOriginals(patch)) =>
        /\ Len(target.words) = Len(input0.words)
        /\ target.tail = input0.tail
        /\ target.hdr = input0.hdr
        /\ target.certs = input0.certs
        /\ \A i \in 1..Len(input0.words) :
              IF Matching(input0.words[i], patch) # {}
              THEN /\ target.words[i] = FirstReplacement(input0.words[i], patch)
                   /\ nwrites[i] = 1
              ELSE /\ target.words[i] = input0.words[i]
                   /\ nwrites[i] = 0

\* Two pairs that swap two values, both values in the file, a remainder after
\* the last word.
C18_Witness ==
    /\ pc = "close"
    /\ fails = 0
    /\ Len(patch) = 4
    /\ DistinctOriginals(patch)
    /\ patch[2] = patch[3]
    /\ patch[4] = patch[1]
    /\ Len(input0.words) = 2
    /\ input0.words[1] # input0.words[2]
    /\ target.words[1] = input0.words[2]
    /\ target.words[2] = input0.words[1]
    /\ target.tail = 1

\* C19 (the stream of the scan): when main_utf8 has returned, the stream it
\* opened on the target is closed.
C19_StreamClosed == pc = "done" => ~fileOpen

\* C20 (the step of the scan): between two outer iterations the stream
\* position is the start of the next word not yet visited, pos words into the
\* file and never past its last whole word, whatever matched and whether or
\* not the writes succeeded; the scan is over exactly when that position is
\* the end of the words.
C20_OneWordPerIteration ==
    /\ pc = "scan" => (fpos = pos /\ pos <= Len(target.words))
    /\ pc = "close" => (fpos = pos /\ pos = Len(target.words))

====
